---- MODULE Spec2Model ----
(***************************************************************************)
(* Lab Timetable Dashboard (dashboard.py).                                 *)
(*                                                                         *)
(* The script is re-executed from top to bottom on every selector change.  *)
(* One run loads the spreadsheet and derives the normalized table          *)
(* (load_data), computes the analytics aggregates, reads the four          *)
(* selectors, filters the table and projects the filtered subset onto the  *)
(* timeline.  The state of the model is what one run leaves behind; every  *)
(* action is one selector change followed by the whole re-run.             *)
(*                                                                         *)
(* A table is a sequence of rows, a row is a record of cells.  A missing   *)
(* cell is the value NaN.  Duration, a float number of hours in the code,  *)
(* is kept exact as whole hours plus sixtieths of an hour.                 *)
(***************************************************************************)
EXTENDS Integers, Sequences, FiniteSets, TLC

VARIABLES file, df, day_counts, top_rooms, heatmap_data,
          selected_building, selected_room, selected_subject, selected_day,
          room_options, filtered_df, timeline_df, busiest_day

vars == <<file, df, day_counts, top_rooms, heatmap_data,
          selected_building, selected_room, selected_subject, selected_day,
          room_options, filtered_df, timeline_df, busiest_day>>

(***************************************************************************)
(* Bounds and input domains                                                *)
(***************************************************************************)
\* longest spreadsheet explored
MaxRows == 2

\* a missing cell (pandas NaN / None)
NaN == "NaN"

\* a missing instant (pandas NaT)
NaT == [Date |-> NaN, Time |-> NaN]

\* the statistic of a run that did not render the Quick Stats block
NotRendered == "<not rendered>"

Range(s) == {s[i] : i \in DOMAIN s}

\* one spreadsheet row
Row(subj, days, start, end, bldg, room, name) ==
    [Subject |-> subj, Number |-> 101, Days |-> days, Start |-> start,
     End |-> end, Bldg |-> bldg, Room |-> room, Section |-> "1",
     Name |-> name, Email |-> "x@x.com"]

\* a timetable of six sessions: two buildings, a room number used in both
\* and rooms used in one only, two subjects, mapped day codes and an
\* unmapped one, instructors present, empty, blank and missing
Timetable ==
    << Row("CS", "M",  900,  950,  "A", "101", ""),
       Row("CS", "T",  1330, 1500, "A", "102", "Smith"),
       Row("CS", "MW", 900,  950,  "A", "101", "Smith"),
       Row("EE", "M",  1000, 1130, "B", "101", " "),
       Row("EE", "U",  1445, 1600, "B", "103", NaN),
       Row("EE", "T",  1330, 1500, "B", "103", "Jones") >>

Sessions == {Timetable[i] : i \in DOMAIN Timetable}

\* valid HHMM time codes for the one-session spreadsheets
Hours == {9, 13, 15}
Minutes == {0, 30, 50}
HHMM == {h * 100 + m : h \in Hours, m \in Minutes}

\* every spreadsheet explored: the timetable, any up to MaxRows of its
\* sessions in any order, or one session with any pair of time codes
Spreadsheets ==
    {Timetable}
    \cup UNION {[1..n -> Sessions] : n \in 1..MaxRows}
    \cup {<<Row("CS", "M", s, e, "A", "101", "Smith")>> : s \in HHMM, e \in HHMM}

\* the strings of the explored spreadsheets in Python's string order, which
\* sorted() follows
BldgOrder == <<"A", "B">>
RoomOrder == <<"101", "102", "103">>

sorted(S, order) == SelectSeq(order, LAMBDA x : x \in S)

(***************************************************************************)
(* load_data                                                               *)
(***************************************************************************)
\* pd.read_excel: an empty cell and an empty string are both read as NaN
read_excel(sheet) ==
    [i \in DOMAIN sheet |->
        [sheet[i] EXCEPT !.Name = IF @ = "" THEN NaN ELSE @]]

\* format spec 02d
Pad2(n) == IF n < 10 THEN "0" \o ToString(n) ELSE ToString(n)

\* lambda x: f"{x//100:02d}:{x % 100:02d}"
FormatTime(x) == Pad2(x \div 100) \o ":" \o Pad2(x % 100)

\* minutes since midnight of an HHMM time code
TotalMinutes(x) == (x \div 100) * 60 + (x % 100)

\* Duration taken from the minute totals instead of the HHMM difference
DurationFromTotals(start, end) ==
    [hours     |-> (TotalMinutes(end) - TotalMinutes(start)) \div 60,
     sixtieths |-> (TotalMinutes(end) - TotalMinutes(start)) % 60]

\* (End - Start) // 100 + ((End - Start) % 100) / 60
Duration(start, end) ==
    [hours |-> (end - start) \div 100, sixtieths |-> (end - start) % 100]

day_map ==
    [d \in {"U", "M", "T", "W", "R", "S"} |->
        CASE d = "U" -> "Sunday"
          [] d = "M" -> "Monday"
          [] d = "T" -> "Tuesday"
          [] d = "W" -> "Wednesday"
          [] d = "R" -> "Thursday"
          [] d = "S" -> "Saturday"]

\* df['Days'].map(day_map).fillna(df['Days'])
Day_Full(days) == IF days \in DOMAIN day_map THEN day_map[days] ELSE days

Course(r) == r.Subject \o " " \o ToString(r.Number)

Room_ID(r) == "Bldg " \o r.Bldg \o " - Room " \o r.Room

Columns(r, extra) == [c \in DOMAIN r \cup DOMAIN extra |->
                        IF c \in DOMAIN extra THEN extra[c] ELSE r[c]]

load_data(sheet) ==
    LET raw == read_excel(sheet)
    IN  [i \in DOMAIN raw |->
            Columns(raw[i],
                [index      |-> i - 1,
                 Start_Time |-> FormatTime(raw[i].Start),
                 End_Time   |-> FormatTime(raw[i].End),
                 Start_Hour |-> raw[i].Start \div 100,
                 Duration   |-> Duration(raw[i].Start, raw[i].End),
                 Day_Full   |-> Day_Full(raw[i].Days),
                 Course     |-> Course(raw[i]),
                 Room_ID    |-> Room_ID(raw[i])])]

\* Duration x 60
DurationMinutes(r) == r.Duration.hours * 60 + r.Duration.sixtieths

(***************************************************************************)
(* Analytics                                                               *)
(***************************************************************************)
Column(t, c) == [i \in DOMAIN t |-> t[i][c]]

Count(s, v) == Cardinality({i \in DOMAIN s : s[i] = v})

\* the distinct values of a column in order of first appearance
RECURSIVE unique(_)
unique(s) ==
    IF s = <<>> THEN <<>>
    ELSE LET rest == unique(SubSeq(s, 1, Len(s) - 1))
             last == s[Len(s)]
         IN  IF last \in Range(rest) THEN rest ELSE Append(rest, last)

\* keys u ordered by descending count in s, ties in order of first appearance
RECURSIVE SortByCount(_, _)
SortByCount(u, s) ==
    IF u = <<>> THEN <<>>
    ELSE LET best == CHOOSE i \in DOMAIN u :
                        /\ \A j \in DOMAIN u : Count(s, u[j]) <= Count(s, u[i])
                        /\ \A j \in 1..(i - 1) : Count(s, u[j]) < Count(s, u[i])
         IN  <<u[best]>> \o
             SortByCount(SelectSeq(u, LAMBDA x : x # u[best]), s)

\* Series.value_counts(): sequence of [key, count]
value_counts(s) ==
    LET keys == SortByCount(unique(s), s)
    IN  [i \in DOMAIN keys |-> [key |-> keys[i], count |-> Count(s, keys[i])]]

head(s, n) == SubSeq(s, 1, IF Len(s) < n THEN Len(s) ELSE n)

day_order == <<"Sunday", "Monday", "Tuesday", "Wednesday", "Thursday", "Saturday">>

\* Series.reindex(labels): one entry per label, NaN where the label is absent
reindex(vc, labels) ==
    [i \in DOMAIN labels |->
        [key   |-> labels[i],
         count |-> IF \E j \in DOMAIN vc : vc[j].key = labels[i]
                   THEN vc[CHOOSE j \in DOMAIN vc : vc[j].key = labels[i]].count
                   ELSE NaN]]

\* [d for d in day_order if d in df['Day_Full'].values]
DaysPresent(t) == SelectSeq(day_order, LAMBDA d : d \in Range(Column(t, "Day_Full")))

\* reindex over the whole of day_order, the membership test left out
DayCountsAllDays(t) == reindex(value_counts(Column(t, "Day_Full")), day_order)

\* df['Day_Full'].value_counts().reindex([d for d in day_order if d in ...])
DayCounts(t) == reindex(value_counts(Column(t, "Day_Full")), DaysPresent(t))

day_order_map ==
    [d \in {"U", "M", "T", "W", "R", "S"} |->
        CASE d = "U" -> 0
          [] d = "M" -> 1
          [] d = "T" -> 2
          [] d = "W" -> 3
          [] d = "R" -> 4
          [] d = "S" -> 5]

\* df['Day_Order'] = df['Days'].map(day_order_map)
AddDayOrder(t) ==
    [i \in DOMAIN t |->
        Columns(t[i], [Day_Order |-> IF t[i].Days \in DOMAIN day_order_map
                                     THEN day_order_map[t[i].Days] ELSE NaN])]

\* number of rooms kept for the heatmap
TopRoomCount == 15

\* df['Room_ID'].value_counts().head(15).index.tolist()
TopRooms(t) ==
    LET vc == head(value_counts(Column(t, "Room_ID")), TopRoomCount)
    IN  [i \in DOMAIN vc |-> vc[i].key]

\* [d for d in day_order if d in heatmap_data.columns]
DayCols(cols) == SelectSeq(day_order, LAMBDA d : d \in cols)

\* groupby(['Room_ID', 'Day_Full']).size().unstack(fill_value=0)[day_cols]
HeatmapData(t) ==
    LET top == Range(TopRooms(t))
        sel == SelectSeq(t, LAMBDA r : r.Room_ID \in top)
        rooms == {r.Room_ID : r \in Range(sel)}
        cols == DayCols({r.Day_Full : r \in Range(sel)})
    IN  [index   |-> rooms,
         columns |-> cols,
         values  |-> [room \in rooms, d \in Range(cols) |->
                        Cardinality({i \in DOMAIN sel :
                            sel[i].Room_ID = room /\ sel[i].Day_Full = d})]]

(***************************************************************************)
(* Calendar view: selectors, filter, timeline projection, quick stats      *)
(***************************************************************************)
All == "All"

\* options=['All'] + sorted(df['Bldg'].unique().tolist()), without 'All'
BuildingOptions(t) == sorted(Range(Column(t, "Bldg")), BldgOrder)

\* room options that ignore the building
RoomOptionsAnyBuilding(t, building) == sorted(Range(Column(t, "Room")), RoomOrder)

\* room_options of the run whose Building selector shows building
RoomOptions(t, building) ==
    IF building = All
    THEN sorted(Range(Column(t, "Room")), RoomOrder)
    ELSE sorted(Range(Column(SelectSeq(t, LAMBDA r : r.Bldg = building), "Room")),
                RoomOrder)

\* the Subject selector's values (their order on screen is not modelled)
SubjectOptions(t) == Range(Column(t, "Subject"))

\* day_options = [d for d in day_order if d in df['Day_Full'].values]
DayOptions(t) == DaysPresent(t)

\* options=['All'] + ...
SelectboxOptions(options) == <<All>> \o options

\* the filter with the Day step left out
ApplyFiltersNoDay(t, building, room, subject, day) ==
    LET f1 == IF building # All THEN SelectSeq(t, LAMBDA r : r.Bldg = building) ELSE t
        f2 == IF room # All THEN SelectSeq(f1, LAMBDA r : r.Room = room) ELSE f1
        f3 == IF subject # All THEN SelectSeq(f2, LAMBDA r : r.Subject = subject) ELSE f2
    IN  f3

\* filtered_df = df.copy() narrowed by each selector that is not 'All'
ApplyFilters(t, building, room, subject, day) ==
    LET f1 == IF building # All THEN SelectSeq(t, LAMBDA r : r.Bldg = building) ELSE t
        f2 == IF room # All THEN SelectSeq(f1, LAMBDA r : r.Room = room) ELSE f1
        f3 == IF subject # All THEN SelectSeq(f2, LAMBDA r : r.Subject = subject) ELSE f2
        f4 == IF day # All THEN SelectSeq(f3, LAMBDA r : r.Day_Full = day) ELSE f3
    IN  f4

day_to_date ==
    [d \in Range(day_order) |->
        CASE d = "Sunday"    -> "2024-01-07"
          [] d = "Monday"    -> "2024-01-08"
          [] d = "Tuesday"   -> "2024-01-09"
          [] d = "Wednesday" -> "2024-01-10"
          [] d = "Thursday"  -> "2024-01-11"
          [] d = "Saturday"  -> "2024-01-13"]

\* timeline_df['Day_Full'].map(day_to_date)
Date(day) == IF day \in DOMAIN day_to_date THEN day_to_date[day] ELSE NaN

\* pd.to_datetime(Date + ' ' + time): the instant of that date and time of
\* day, NaT when the date is missing
to_datetime(date, time) == IF date = NaN THEN NaT ELSE [Date |-> date, Time |-> time]

notna(x) == x # NaN

\* r['Name'] if pd.notna(r['Name']) else 'TBA'
Instructor(r) == IF notna(r.Name) THEN r.Name ELSE "TBA"

\* the f-string of the hover text up to the instructor
HoverHead(r) ==
    "<b>" \o r.Course \o "</b><br>Section: " \o r.Section
    \o "<br>Time: " \o r.Start_Time \o "-" \o r.End_Time
    \o "<br>Room: " \o r.Room_ID \o "<br>Instructor: "

Hover(r) == HoverHead(r) \o Instructor(r)

\* timeline_df = filtered_df.copy() plus Date, Start_DT, End_DT, Hover
Timeline(f) ==
    [i \in DOMAIN f |->
        Columns(f[i],
            [Date     |-> Date(f[i].Day_Full),
             Start_DT |-> to_datetime(Date(f[i].Day_Full), f[i].Start_Time),
             End_DT   |-> to_datetime(Date(f[i].Day_Full), f[i].End_Time),
             Hover    |-> Hover(f[i])])]

\* filtered_df['Day_Full'].value_counts().idxmax() if len(filtered_df) > 0 else "N/A"
BusiestDay(f) ==
    IF Len(f) > 0 THEN value_counts(Column(f, "Day_Full"))[1].key ELSE "N/A"

(***************************************************************************)
(* One execution of the script                                             *)
(***************************************************************************)
\* the script re-runs from the top with the selectors showing these values
Rerun(building, room, subject, day) ==
    /\ UNCHANGED file
    /\ df' = AddDayOrder(load_data(file))
    /\ day_counts' = DayCounts(load_data(file))
    /\ top_rooms' = TopRooms(df')
    /\ heatmap_data' = HeatmapData(df')
    /\ selected_building' = building
    /\ room_options' = RoomOptions(df', building)
    /\ selected_room' = room
    /\ selected_subject' = subject
    /\ selected_day' = day
    /\ filtered_df' = ApplyFilters(df', building, room, subject, day)
    /\ timeline_df' = IF Len(filtered_df') > 0 THEN Timeline(filtered_df') ELSE <<>>
    /\ busiest_day' = IF Len(filtered_df') > 0 THEN BusiestDay(filtered_df')
                      ELSE NotRendered

\* first run: every selector shows its first option, 'All'
Init ==
    /\ file \in Spreadsheets
    /\ df = AddDayOrder(load_data(file))
    /\ day_counts = DayCounts(load_data(file))
    /\ top_rooms = TopRooms(df)
    /\ heatmap_data = HeatmapData(df)
    /\ selected_building = All
    /\ room_options = RoomOptions(df, All)
    /\ selected_room = All
    /\ selected_subject = All
    /\ selected_day = All
    /\ filtered_df = ApplyFilters(df, All, All, All, All)
    /\ timeline_df = IF Len(filtered_df) > 0 THEN Timeline(filtered_df) ELSE <<>>
    /\ busiest_day = IF Len(filtered_df) > 0 THEN BusiestDay(filtered_df)
                     ELSE NotRendered

\* The user picks another building.  The Room selectbox keeps its value only
\* when its option list is the same as in the previous run; a selectbox whose
\* options changed is a new widget and shows its first option.
SelectBuilding(b) ==
    /\ b \in Range(SelectboxOptions(BuildingOptions(df)))
    /\ b # selected_building
    /\ Rerun(b,
             IF RoomOptions(df, b) = room_options THEN selected_room ELSE All,
             selected_subject, selected_day)

SelectRoom(r) ==
    /\ r \in Range(SelectboxOptions(room_options))
    /\ r # selected_room
    /\ Rerun(selected_building, r, selected_subject, selected_day)

SelectSubject(s) ==
    /\ s \in {All} \cup SubjectOptions(df)
    /\ s # selected_subject
    /\ Rerun(selected_building, selected_room, s, selected_day)

SelectDay(d) ==
    /\ d \in Range(SelectboxOptions(DayOptions(df)))
    /\ d # selected_day
    /\ Rerun(selected_building, selected_room, selected_subject, d)

Next ==
    \/ \E b \in {All} \cup Range(BldgOrder) : SelectBuilding(b)
    \/ \E r \in {All} \cup Range(RoomOrder) : SelectRoom(r)
    \/ \E s \in {All, "CS", "EE"} : SelectSubject(s)
    \/ \E d \in {All} \cup Range(day_order) : SelectDay(d)

Spec == Init /\ [][Next]_vars

(***************************************************************************)
(* Properties                                                              *)
(***************************************************************************)
MinuteDifference(r) == TotalMinutes(r.End) - TotalMinutes(r.Start)

\* C1: the Duration of every session, in minutes, is the difference of the
\* minute totals of End and Start (1330 to 1500 is 90 minutes).
C1_DurationIsMinuteDifference ==
    \A i \in DOMAIN df : DurationMinutes(df[i]) = MinuteDifference(df[i])

\* C10: the Duration in minutes is 60 q + r for the quotient q and remainder
\* r of (End - Start) by 100; it is the minute difference when End's minute
\* part is not below Start's, and 40 minutes more when it is below.
C10_DurationOffByForty ==
    \A i \in DOMAIN df :
        LET d == DurationMinutes(df[i])
            diff == df[i].End - df[i].Start
        IN  /\ \E q \in -24..24 : \E r \in 0..99 :
                    diff = 100 * q + r /\ d = 60 * q + r
            /\ (df[i].End % 100 >= df[i].Start % 100) => d = MinuteDifference(df[i])
            /\ (df[i].End % 100 < df[i].Start % 100) => d = MinuteDifference(df[i]) + 40

\* a loaded table with a session of each kind
C10_Witness ==
    /\ \E i \in DOMAIN df :
          /\ df[i].End % 100 < df[i].Start % 100
          /\ DurationMinutes(df[i]) = MinuteDifference(df[i]) + 40
    /\ \E i \in DOMAIN df :
          /\ df[i].End % 100 >= df[i].Start % 100
          /\ df[i].End # df[i].Start
          /\ DurationMinutes(df[i]) = MinuteDifference(df[i])

Matches(r) ==
    /\ selected_building = All \/ r.Bldg = selected_building
    /\ selected_room = All \/ r.Room = selected_room
    /\ selected_subject = All \/ r.Subject = selected_subject
    /\ selected_day = All \/ r.Day_Full = selected_day

\* C2: after any sequence of selector changes the filtered subset is exactly
\* the rows of the table that match every selector that is not "All"; no
\* matching row is missing, no other row is present, no row appears twice.
C2_FilterExact ==
    /\ Range(filtered_df) = {r \in Range(df) : Matches(r)}
    /\ Cardinality(Range(filtered_df)) = Len(filtered_df)

\* two selectors narrowed, a row kept and a row excluded by the Day selector
\* alone
C2_Witness ==
    /\ selected_building # All
    /\ selected_day # All
    /\ Len(filtered_df) > 0
    /\ \E r \in Range(df) : r.Bldg = selected_building /\ r.Day_Full # selected_day

RECURSIVE SumOver(_, _)
SumOver(f, S) ==
    IF S = {} THEN 0
    ELSE LET x == CHOOSE y \in S : TRUE IN f[x] + SumOver(f, S \ {x})

\* C3: the cells of the rendered room-utilization matrix add up to the number
\* of sessions held in the top rooms, unmapped day codes included.
C3_HeatmapSum ==
    SumOver(heatmap_data.values, DOMAIN heatmap_data.values)
        = Cardinality({i \in DOMAIN df : df[i].Room_ID \in Range(top_rooms)})

\* C4: the Room options offered are "All" plus exactly the rooms of the rows
\* of the selected building (of every row when Building is "All").
C4_RoomOptionsFollowBuilding ==
    Range(SelectboxOptions(room_options)) =
        {All} \cup {r.Room : r \in {x \in Range(df) :
                        selected_building = All \/ x.Bldg = selected_building}}

\* a building is selected and a room of another building is not offered
C4_Witness ==
    /\ selected_building # All
    /\ room_options # <<>>
    /\ \E r \in Range(df) :
          /\ r.Bldg # selected_building
          /\ r.Room \notin Range(SelectboxOptions(room_options))

FilteredDayCount(d) == Cardinality({i \in DOMAIN filtered_df : filtered_df[i].Day_Full = d})

\* C5: with an empty filtered subset the busiest day is reported as "N/A";
\* otherwise it is a Day_Full of the subset with the largest session count.
C5_BusiestDay ==
    /\ Len(filtered_df) = 0 => busiest_day = "N/A"
    /\ Len(filtered_df) > 0 =>
          /\ FilteredDayCount(busiest_day) > 0
          /\ \A i \in DOMAIN filtered_df :
                FilteredDayCount(filtered_df[i].Day_Full) <= FilteredDayCount(busiest_day)

\* a Name cell that is missing or blank
Blank(name) == name = NaN \/ name \in {"", " "}

C7_TimelineInstantsDefined ==
    /\ \A i \in DOMAIN timeline_df :
          /\ timeline_df[i].Start_DT # NaT
          /\ timeline_df[i].End_DT # NaT
          /\ timeline_df[i].Start_DT = [Date |-> timeline_df[i].Date,
                                        Time |-> timeline_df[i].Start_Time]
          /\ timeline_df[i].End_DT = [Date |-> timeline_df[i].Date,
                                      Time |-> timeline_df[i].End_Time]
    /\ \A i, j \in DOMAIN timeline_df :
          timeline_df[i].Day_Full # timeline_df[j].Day_Full
              => timeline_df[i].Date # timeline_df[j].Date

\* C8: at the end of a run the table is the one load_data returned: same
\* rows, same columns, same cells.
C8_TableUnchanged == df = load_data(file)

DayPosition(d) == CHOOSE k \in DOMAIN day_order : day_order[k] = d

\* C9: sessions-by-day lists exactly the days of the table that belong to the
\* canonical week, in canonical order, each with its session count; no
\* Friday, no day without sessions, no unmapped day code.
C9_SessionsByDay ==
    LET keys == {day_counts[i].key : i \in DOMAIN day_counts}
    IN  /\ keys = {df[i].Day_Full : i \in DOMAIN df} \cap Range(day_order)
        /\ "Friday" \notin keys
        /\ \A i, j \in DOMAIN day_counts :
              i < j => DayPosition(day_counts[i].key) < DayPosition(day_counts[j].key)
        /\ \A i \in DOMAIN day_counts :
              /\ day_counts[i].count > 0
              /\ day_counts[i].count =
                    Cardinality({j \in DOMAIN df : df[j].Day_Full = day_counts[i].key})

\* a table with an unmapped day code, a day with several sessions and a
\* canonical day that comes later in the table than in the result
C9_Witness ==
    /\ \E i \in DOMAIN df : df[i].Day_Full \notin Range(day_order)
    /\ \E i \in DOMAIN day_counts : day_counts[i].count > 1
    /\ \E i, j \in DOMAIN df :
          /\ i < j
          /\ df[i].Day_Full \in Range(day_order)
          /\ df[j].Day_Full \in Range(day_order)
          /\ DayPosition(df[j].Day_Full) < DayPosition(df[i].Day_Full)
====
